---------------------------- MODULE Spec2Model ----------------------------
(***************************************************************************)
(* A model of pcvisualizer: the winit application handler (src/lib.rs),    *)
(* the Engine (src/engine/mod.rs), the orbit Camera (src/engine/camera.rs) *)
(* and the PointCloud renderer (src/engine/pointcloud.rs).                 *)
(*                                                                         *)
(* f32 camera vectors are fixed-point integers in units of 1/One, every    *)
(* product and quotient rounded to nearest.  Point coordinates are small   *)
(* integers and an instance coordinate is the exact quotient <<n, d>> in   *)
(* lowest terms, d = 0 standing for the IEEE results of a division by      *)
(* zero (<<0,0>> NaN, <<1,0>> +inf, <<-1,0>> -inf).                        *)
(***************************************************************************)
EXTENDS Integers, Sequences, FiniteSets, TLC

VARIABLES
    engine,         \* App.engine: "None" before resumed(), "Some" after
    pcd_path,       \* App.pcd_path: NoPath or the file named on the command line
    scale_factor,   \* window.scale_factor()
    window_size,    \* window.inner_size()
    size,           \* Engine.size
    config,         \* Engine.config: [width, height] of the SurfaceConfiguration
    surface,        \* the surface: whether it is configured, and with what extent
    depth_texture,  \* Engine.depth_texture: the extent it was created with
    camera,         \* Engine.camera
    pointcloud,     \* Engine.pointcloud
    exited,         \* event_loop.exit() has been called
    event,          \* the event of the last callback
    ret,            \* what Engine::input returned in the last callback (FALSE if not called)
    ops,            \* the calls the last callback made, in order
    nEvents         \* callbacks delivered so far

vars == <<engine, pcd_path, scale_factor, window_size, size, config, surface,
          depth_texture, camera, pointcloud, exited, event, ret, ops, nEvents>>

-----------------------------------------------------------------------------
(* Bounds of the model *)

\* Callbacks delivered under Spec, SpecCamera, SpecLoad, SpecFrame and SpecKeys
MaxEvents == 2
MaxCameraEvents == 4
MaxLoadEvents == 2
MaxFrameEvents == 3
MaxKeyEvents == 3
\* Points in a file
MaxPoints == 2

-----------------------------------------------------------------------------
(* Fixed-point arithmetic standing for f32 *)

\* let scale = 0.0001 (camera_rotate): 1/scale
RotateScaleInv == 10000
\* let scale = 0.01 (camera_zoom): 1/scale
ZoomScaleInv == 100
\* the magnitude of the delta_y set_birdeye passes
BirdeyeMag == 100000000

\* 1.0 in fixed point: the resolution is the rotation scale
One == RotateScaleInv

\* The largest component Normalize squares (3 * Big^2 < 2^31)
Big == 2 * One

NaN == <<>>

Abs(a) == IF a < 0 THEN -a ELSE a

Sign(a) == IF a < 0 THEN -1 ELSE IF a > 0 THEN 1 ELSE 0

Max2(a, b) == IF a < b THEN b ELSE a

\* a / b rounded to nearest, b > 0
RDiv(a, b) == IF a >= 0 THEN (2 * a + b) \div (2 * b)
                        ELSE -((2 * (-a) + b) \div (2 * b))

\* a * b / c rounded, without forming a * b when b is large, c > 0
MulDiv(a, b, c) == a * (b \div c) + RDiv(a * (b % c), c)

RECURSIVE SqrtSearch(_, _, _)
SqrtSearch(n, lo, hi) ==
    IF lo >= hi THEN lo
    ELSE LET mid == (lo + hi + 1) \div 2
         IN  IF mid * mid <= n THEN SqrtSearch(n, mid, hi)
                               ELSE SqrtSearch(n, lo, mid - 1)

\* sqrt(n) rounded to nearest, 0 <= n < 2^31
Sqrt(n) == LET f == SqrtSearch(n, 0, 46340)
           IN  IF n - f * f > f THEN f + 1 ELSE f

VSub(a, b) == IF a = NaN \/ b = NaN THEN NaN
              ELSE <<a[1] - b[1], a[2] - b[2], a[3] - b[3]>>

VAdd(a, b) == IF a = NaN \/ b = NaN THEN NaN
              ELSE <<a[1] + b[1], a[2] + b[2], a[3] + b[3]>>

\* v * num / den
VScale(v, num, den) ==
    IF v = NaN THEN NaN
    ELSE <<MulDiv(v[1], num, den), MulDiv(v[2], num, den), MulDiv(v[3], num, den)>>

\* InnerSpace::magnitude
Magnitude(v) ==
    LET m == Max2(Abs(v[1]), Max2(Abs(v[2]), Abs(v[3])))
        k == IF m > Big THEN m \div Big + 1 ELSE 1
        w == <<RDiv(v[1], k), RDiv(v[2], k), RDiv(v[3], k)>>
    IN  k * Sqrt(w[1] * w[1] + w[2] * w[2] + w[3] * w[3])

\* InnerSpace::normalize: v / |v|, NaN for the zero vector (0/0)
Normalize(v) ==
    IF v = NaN THEN NaN
    ELSE LET m == Max2(Abs(v[1]), Max2(Abs(v[2]), Abs(v[3])))
             k == IF m > Big THEN m \div Big + 1 ELSE 1
             w == <<RDiv(v[1], k), RDiv(v[2], k), RDiv(v[3], k)>>
             mag == Sqrt(w[1] * w[1] + w[2] * w[2] + w[3] * w[3])
         IN  IF mag = 0 THEN NaN
             ELSE <<RDiv(w[1] * One, mag), RDiv(w[2] * One, mag), RDiv(w[3] * One, mag)>>

\* Vector3::cross of a unit vector with a vector
Cross(a, b) ==
    IF a = NaN \/ b = NaN THEN NaN
    ELSE <<RDiv(a[2] * b[3] - a[3] * b[2], One),
           RDiv(a[3] * b[1] - a[1] * b[3], One),
           RDiv(a[1] * b[2] - a[2] * b[1], One)>>

\* eye.z > 0.0, false of a NaN
ZPositive(v) == v # NaN /\ v[3] > 0

-----------------------------------------------------------------------------
(* Camera, src/engine/camera.rs *)

None == <<>>

\* lower terms of w / h
RECURSIVE Gcd(_, _)
Gcd(a, b) == IF b = 0 THEN a ELSE Gcd(b, a % b)

\* a / b as an f32: the exact quotient in lowest terms, or an IEEE special
FDiv(a, b) ==
    IF b = 0 THEN <<Sign(a), 0>>
    ELSE LET g == Gcd(Abs(a), Abs(b))
             s == IF b < 0 THEN -1 ELSE 1
         IN  <<s * (a \div g), s * (b \div g)>>

\* Camera::new: fovy in degrees, znear: 0.01 and zfar: 100.0 in fixed point
Camera_new(eye, target, up, aspect, fovy) ==
    [eye |-> eye, target |-> target, up |-> up, aspect |-> aspect,
     fovy |-> fovy, znear |-> One \div 100, zfar |-> 100 * One,
     mouse_right_position |-> None,
     is_left_pressed |-> FALSE, is_right_pressed |-> FALSE,
     is_up_pressed |-> FALSE, is_down_pressed |-> FALSE]

\* RotateCandidate with the new direction not scaled by |forward|
RotateCandidateUnitRadius(cam, delta_x, delta_y) ==
    LET forward == VSub(cam.target, cam.eye)
        forward_norm == Normalize(forward)
        right == Normalize(Cross(forward_norm, cam.up))
        up == Normalize(cam.up)
        dir == Normalize(VAdd(VAdd(forward, VScale(right, delta_x, RotateScaleInv)),
                              VScale(up, delta_y, RotateScaleInv)))
    IN  VSub(cam.target, dir)

\* the candidate eye of camera_rotate, before the guard
RotateCandidate(cam, delta_x, delta_y) ==
    LET forward == VSub(cam.target, cam.eye)
        forward_norm == Normalize(forward)
        forward_mag == Magnitude(forward)
        right == Normalize(Cross(forward_norm, cam.up))
        up == Normalize(cam.up)
        dir == Normalize(VAdd(VAdd(forward, VScale(right, delta_x, RotateScaleInv)),
                              VScale(up, delta_y, RotateScaleInv)))
    IN  VSub(cam.target, VScale(dir, forward_mag, One))

\* AcceptEye without the z test: every finite candidate is stored
AcceptEyeUnguarded(eye) == eye # NaN

\* the guard of camera_rotate and camera_zoom: the candidate is stored iff this holds
AcceptEye(eye) == ZPositive(eye)

\* StoreEye moving the target along with the eye
StoreEyeAndTarget(cam, eye) ==
    IF AcceptEye(eye)
    THEN [cam EXCEPT !.eye = eye, !.target = VAdd(cam.target, VSub(eye, cam.eye))]
    ELSE cam

\* if eye.z > 0.0 { self.eye = eye; }
StoreEye(cam, eye) == IF AcceptEye(eye) THEN [cam EXCEPT !.eye = eye] ELSE cam

camera_rotate(cam, delta_x, delta_y) ==
    StoreEye(cam, RotateCandidate(cam, delta_x, delta_y))

\* the candidate eye of camera_zoom, before the guard
ZoomCandidate(cam, y) ==
    LET forward == VSub(cam.target, cam.eye)
        forward_norm == Normalize(forward)
    IN  VAdd(cam.eye, VScale(forward_norm, y, ZoomScaleInv))

camera_zoom(cam, y) == StoreEye(cam, ZoomCandidate(cam, y))

set_birdeye(cam) == camera_rotate(cam, 0, -BirdeyeMag)

set_aspect(cam, aspect) == [cam EXCEPT !.aspect = aspect]

\* PhysicalPosition::to_logical
to_logical(position, sf) == <<position[1] \div sf, position[2] \div sf>>


\* The result of a handler that may consume the event
Handled(cam, consumed) == [camera |-> cam, consumed |-> consumed]

\* The CursorMoved arm while a drag session is active
CursorMovedDrag(cam, logical_position) ==
    LET x == cam.mouse_right_position[1]
        y == cam.mouse_right_position[2]
    IN  IF x = 0 /\ y = 0
        THEN [cam EXCEPT !.mouse_right_position = logical_position]
        ELSE camera_rotate(cam, logical_position[1] - x, logical_position[2] - y)

\* CameraKey with a movement flag that is set by any event of its key and never reset
CameraKeySticky(cam, keycode, is_pressed) ==
    CASE keycode \in {"KeyW", "ArrowUp"} ->
            Handled([cam EXCEPT !.is_up_pressed = TRUE], TRUE)
      [] keycode \in {"KeyS", "ArrowDown"} ->
            Handled([cam EXCEPT !.is_down_pressed = TRUE], TRUE)
      [] keycode \in {"KeyA", "ArrowLeft"} ->
            Handled([cam EXCEPT !.is_left_pressed = TRUE], TRUE)
      [] keycode \in {"KeyD", "ArrowRight"} ->
            Handled([cam EXCEPT !.is_right_pressed = TRUE], TRUE)
      [] keycode = "KeyB" -> Handled(set_birdeye(cam), TRUE)
      [] OTHER -> Handled(cam, FALSE)

\* CameraKey with the birdeye key acting on its press only
CameraKeyBirdeyeOnPress(cam, keycode, is_pressed) ==
    CASE keycode \in {"KeyW", "ArrowUp"} ->
            Handled([cam EXCEPT !.is_up_pressed = is_pressed], TRUE)
      [] keycode \in {"KeyS", "ArrowDown"} ->
            Handled([cam EXCEPT !.is_down_pressed = is_pressed], TRUE)
      [] keycode \in {"KeyA", "ArrowLeft"} ->
            Handled([cam EXCEPT !.is_left_pressed = is_pressed], TRUE)
      [] keycode \in {"KeyD", "ArrowRight"} ->
            Handled([cam EXCEPT !.is_right_pressed = is_pressed], TRUE)
      [] keycode = "KeyB" ->
            IF is_pressed THEN Handled(set_birdeye(cam), TRUE) ELSE Handled(cam, FALSE)
      [] OTHER -> Handled(cam, FALSE)

\* The KeyboardInput arm
CameraKey(cam, keycode, is_pressed) ==
    CASE keycode \in {"KeyW", "ArrowUp"} ->
            Handled([cam EXCEPT !.is_up_pressed = is_pressed], TRUE)
      [] keycode \in {"KeyS", "ArrowDown"} ->
            Handled([cam EXCEPT !.is_down_pressed = is_pressed], TRUE)
      [] keycode \in {"KeyA", "ArrowLeft"} ->
            Handled([cam EXCEPT !.is_left_pressed = is_pressed], TRUE)
      [] keycode \in {"KeyD", "ArrowRight"} ->
            Handled([cam EXCEPT !.is_right_pressed = is_pressed], TRUE)
      [] keycode = "KeyB" -> Handled(set_birdeye(cam), TRUE)
      [] OTHER -> Handled(cam, FALSE)

\* MouseRight with the release ignored
MouseRightNoRelease(cam, state) == [cam EXCEPT !.mouse_right_position = <<0, 0>>]

\* The MouseInput arm for the right button
MouseRight(cam, state) ==
    IF state = "Pressed" THEN [cam EXCEPT !.mouse_right_position = <<0, 0>>]
                         ELSE [cam EXCEPT !.mouse_right_position = None]

\* CameraWheel zooming on a pixel delta as on a line delta
CameraWheelAnyDelta(cam, ev) == Handled(camera_zoom(cam, ev.y), TRUE)

\* The MouseWheel arm: only MouseScrollDelta::LineDelta(_, y) matches
CameraWheel(cam, ev) ==
    IF ev.delta = "LineDelta" THEN Handled(camera_zoom(cam, ev.y), TRUE)
                              ELSE Handled(cam, FALSE)

process_event(cam, ev, sf) ==
    CASE ev.type = "MouseInput" ->
            IF ev.button = "Right" THEN Handled(MouseRight(cam, ev.state), TRUE)
                                   ELSE Handled(cam, FALSE)
      [] ev.type = "MouseWheel" -> CameraWheel(cam, ev)
      [] ev.type = "CursorMoved" ->
            IF cam.mouse_right_position # None
            THEN Handled(CursorMovedDrag(cam, to_logical(ev.position, sf)), TRUE)
            ELSE Handled(cam, FALSE)
      [] ev.type = "KeyboardInput" ->
            CameraKey(cam, ev.keycode, ev.state = "Pressed")
      [] OTHER -> Handled(cam, FALSE)

-----------------------------------------------------------------------------
(* PointCloud, src/engine/pointcloud.rs *)

\* f32::MIN: below every coordinate of the model
F32_MIN == -(2 ^ 30)

\* let point_size = 1.5, in tenths
InitPointSize == 15

Point(x, y, z, intensity) == [x |-> x, y |-> y, z |-> z, intensity |-> intensity]

\* MaxValue with the intensity taken into the maximum
RECURSIVE MaxValueWithIntensity(_, _)
MaxValueWithIntensity(points, max_value) ==
    IF points = <<>> THEN max_value
    ELSE LET point == Head(points)
             tmp == Max2(Max2(Max2(point.x, point.y), point.z), point.intensity)
         IN  MaxValueWithIntensity(Tail(points),
                                   IF max_value < tmp THEN tmp ELSE max_value)

\* The first loop of to_instance
RECURSIVE MaxValue(_, _)
MaxValue(points, max_value) ==
    IF points = <<>> THEN max_value
    ELSE LET point == Head(points)
             tmp == Max2(Max2(point.x, point.y), point.z)
         IN  MaxValue(Tail(points), IF max_value < tmp THEN tmp ELSE max_value)

\* The Instance the second loop of to_instance pushes for a point
InstanceOf(point, max_value) ==
    [model |-> <<FDiv(point.x, max_value), FDiv(point.y, max_value),
                 FDiv(point.z, max_value)>>]

\* The second loop of to_instance
Normalized(points, max_value) ==
    [i \in 1..Len(points) |-> InstanceOf(points[i], max_value)]

to_instance(points) == Normalized(points, MaxValue(points, F32_MIN))

\* bytemuck::cast_slice(&self.instances): the f32s of the instances, in order
RECURSIVE cast_slice(_)
cast_slice(instances) ==
    IF instances = <<>> THEN <<>>
    ELSE Head(instances).model \o cast_slice(Tail(instances))

\* Reader::open and reader.collect(): the points, or the error
read_pcd(file) ==
    IF file.status = "Ok" THEN [ok |-> TRUE, points |-> file.points]
                          ELSE [ok |-> FALSE, err |-> file.status]

PointCloud_new ==
    [instances |-> <<>>, instance_buffer |-> <<>>, point_size |-> InitPointSize,
     uniform |-> <<>>]

\* What load_pcd stores once read_pcd has succeeded
SetInstances(pc, instances) ==
    [pc EXCEPT !.instances = instances, !.instance_buffer = cast_slice(instances)]

StoreInstances(pc, points) == SetInstances(pc, to_instance(points))

\* LoadRead with the instances dropped before the result is looked at
LoadReadClearing(pc, r) ==
    IF r.ok THEN [pointcloud |-> StoreInstances(pc, r.points), ok |-> TRUE]
            ELSE [pointcloud |-> SetInstances(pc, <<>>), ok |-> FALSE]

\* load_pcd once read_pcd has answered r
LoadRead(pc, r) ==
    IF r.ok THEN [pointcloud |-> StoreInstances(pc, r.points), ok |-> TRUE]
            ELSE [pointcloud |-> pc, ok |-> FALSE]

load_pcd(pc, file) == LoadRead(pc, read_pcd(file))

set_point_size(pc, s) == [pc EXCEPT !.point_size = s]

\* Camera::get_view_proj: determined by the pose and the projection parameters
get_view_proj(cam) ==
    <<cam.eye, cam.target, cam.up, cam.aspect, cam.fovy, cam.znear, cam.zfar>>

\* PointCloud::update: the uniform written to the uniform buffer
PointCloud_update(pc, cam, inner_size) ==
    [pc EXCEPT !.uniform = [camera |-> get_view_proj(cam),
                            resolution |-> inner_size,
                            size |-> pc.point_size]]

\* PointCloud_draw without the early return on an empty instance set
PointCloud_drawAlways(pc) ==
    <<<<"pointcloud_render_pass", "Load", "Clear">>,
      <<"pointcloud.draw", 6, Len(pc.instances)>>>>

\* PointCloud::draw: nothing if there are no instances; otherwise the render pass it
\* begins (color loaded, depth cleared to 1.0) and the draw(0..6, 0..len) it records
PointCloud_draw(pc) ==
    IF Len(pc.instances) = 0 THEN <<>>
    ELSE <<<<"pointcloud_render_pass", "Load", "Clear">>,
           <<"pointcloud.draw", 6, Len(pc.instances)>>>>

-----------------------------------------------------------------------------
(* Engine, src/engine/mod.rs *)

\* LogicalSize::new(1280, 720)
InitWidth == 1280
InitHeight == 720

\* a bool as recorded in ops
Str(b) == IF b THEN "true" ELSE "false"

Size(w, h) == [width |-> w, height |-> h]

\* A surface before any surface.configure, and after surface.configure(device, cfg)
Unconfigured == [configured |-> FALSE, width |-> 0, height |-> 0]
Configured(cfg) == [configured |-> TRUE, width |-> cfg.width, height |-> cfg.height]

\* Texture::create_depth_texture: the extent is the configuration's
create_depth_texture(cfg) == [width |-> cfg.width, height |-> cfg.height]

\* The Engine-level arm of Engine::input for a KeyboardInput
EngineKey(pc, ev) ==
    IF ev.state = "Pressed" /\ ev.keycode = "KeyJ"
    THEN [pointcloud |-> set_point_size(pc, pc.point_size - 1), ret |-> TRUE, ops |-> <<>>]
    ELSE IF ev.state = "Pressed" /\ ev.keycode = "KeyK"
    THEN [pointcloud |-> set_point_size(pc, pc.point_size + 1), ret |-> TRUE, ops |-> <<>>]
    ELSE [pointcloud |-> pc, ret |-> FALSE, ops |-> <<>>]

\* match self.pointcloud.load_pcd(..) { Err(e) => eprintln!(..), _ => {} }
LoadLogged(r) ==
    [pointcloud |-> r.pointcloud,
     ops |-> <<<<"load_pcd", Str(r.ok)>>>> \o (IF r.ok THEN <<>> ELSE <<<<"eprintln">>>>)]

\* The DroppedFile arm of Engine::input: the load, then request_redraw
DroppedFileArm(l) ==
    [pointcloud |-> l.pointcloud, ret |-> TRUE, ops |-> l.ops \o <<<<"request_redraw">>>>]

EngineDroppedFile(pc, file) == DroppedFileArm(LoadLogged(load_pcd(pc, file)))

\* The match of Engine::input, reached when neither the UI nor the camera consumed
EngineShortcuts(pc, ev) ==
    CASE ev.type = "KeyboardInput" -> EngineKey(pc, ev)
      [] ev.type = "DroppedFile" -> EngineDroppedFile(pc, ev.file)
      [] OTHER -> [pointcloud |-> pc, ret |-> FALSE, ops |-> <<>>]

\* Engine::input once the camera has declined: the Engine-level match answered e
InputMatched(cam, e) ==
    [camera |-> cam, pointcloud |-> e.pointcloud, ret |-> e.ret,
     ops |-> <<<<"gui.input", "false">>, <<"camera.process_event", "false">>,
               <<"engine.match", Str(e.ret)>>>> \o e.ops]

\* Engine::input once the UI has declined: process_event answered c
InputCamera(pc, ev, c) ==
    IF c.consumed
    THEN [camera |-> c.camera, pointcloud |-> pc, ret |-> TRUE,
          ops |-> <<<<"gui.input", "false">>, <<"camera.process_event", "true">>>>]
    ELSE InputMatched(c.camera, EngineShortcuts(pc, ev))

\* Engine_input with the camera offered the event before the UI
Engine_inputCameraFirst(cam, pc, ev, ui, sf) ==
    IF process_event(cam, ev, sf).consumed
    THEN [camera |-> process_event(cam, ev, sf).camera, pointcloud |-> pc, ret |-> TRUE,
          ops |-> <<<<"camera.process_event", "true">>>>]
    ELSE IF ui
    THEN [camera |-> cam, pointcloud |-> pc, ret |-> TRUE,
          ops |-> <<<<"camera.process_event", "false">>, <<"gui.input", "true">>>>]
    ELSE InputMatched(cam, EngineShortcuts(pc, ev))

\* Engine::input; ui is what gui.input (egui) answers for the event
Engine_input(cam, pc, ev, ui, sf) ==
    IF ui
    THEN [camera |-> cam, pointcloud |-> pc, ret |-> TRUE, ops |-> <<<<"gui.input", "true">>>>]
    ELSE InputCamera(pc, ev, process_event(cam, ev, sf))

\* The part of the Engine that resize touches
EngineSurface == [size |-> size, config |-> config, surface |-> surface,
                  depth_texture |-> depth_texture, camera |-> camera, ops |-> <<>>]

\* ResizeAccepts testing the width alone
ResizeAcceptsWidthOnly(new_size) == new_size.width > 0

\* new_size.width > 0 && new_size.height > 0
ResizeAccepts(new_size) == new_size.width > 0 /\ new_size.height > 0

\* Engine::resize
Engine_resize(e, new_size) ==
    IF ResizeAccepts(new_size)
    THEN [size |-> new_size,
          config |-> new_size,
          surface |-> Configured(new_size),
          camera |-> set_aspect(e.camera, FDiv(new_size.width, new_size.height)),
          depth_texture |-> create_depth_texture(new_size),
          ops |-> e.ops \o <<<<"surface.configure", new_size.width, new_size.height>>>>]
    ELSE e

\* Engine_render with the UI pass recorded before the point cloud's
Engine_renderUiFirst(pc, acquire) ==
    IF acquire # "Ok" THEN <<<<"get_current_texture", acquire>>>>
    ELSE <<<<"get_current_texture", "Ok">>, <<"init_render_pass", "Clear", "None">>,
           <<"gui.draw", "Load">>>>
         \o PointCloud_draw(pc)
         \o <<<<"submit">>, <<"present">>>>

\* Engine::render: the calls made, given what get_current_texture answers.  A render
\* pass is recorded with the load op of its color attachment and that of its depth
\* attachment ("None" if it has no depth attachment)
Engine_render(pc, acquire) ==
    IF acquire # "Ok" THEN <<<<"get_current_texture", acquire>>>>
    ELSE <<<<"get_current_texture", "Ok">>, <<"init_render_pass", "Clear", "None">>>>
         \o PointCloud_draw(pc)
         \o <<<<"gui.draw", "Load">>, <<"submit">>, <<"present">>>>

-----------------------------------------------------------------------------
(* App, src/lib.rs *)

\* Option<PathBuf>::None
NoPath == [status |-> "None"]

Unreadable == [status |-> "Unreadable"]
Malformed == [status |-> "Malformed"]
PcdFile(points) == [status |-> "Ok", points |-> points]

\* Engine::set_pcd, called by resumed: load the file, log a failure
set_pcd(pc, file) == LoadLogged(load_pcd(pc, file))

\* The files the command line may name
CliFiles == {Malformed, PcdFile(<<Point(2, 4, 8, 0)>>)}

ScaleFactors == {1, 2}

Init ==
    /\ engine = "None"
    /\ pcd_path \in {NoPath} \cup CliFiles
    /\ scale_factor = 1
    /\ window_size = Size(0, 0)
    /\ size = Size(0, 0)
    /\ config = Size(0, 0)
    /\ surface = Unconfigured
    /\ depth_texture = <<>>
    /\ camera = <<>>
    /\ pointcloud = <<>>
    /\ exited = FALSE
    /\ event = [type |-> "None"]
    /\ ret = FALSE
    /\ ops = <<>>
    /\ nEvents = 0

\* Camera::new((0.5, 0.5, 0.5).into(), ..)
InitEye == <<One \div 2, One \div 2, One \div 2>>

\* NewEngine without the surface.configure call
NewEngineUnconfigured(sz, pre) ==
    /\ window_size' = sz
    /\ size' = sz
    /\ config' = sz
    /\ surface' = surface
    /\ depth_texture' = create_depth_texture(sz)
    /\ camera' = Camera_new(InitEye, <<0, 0, 0>>, <<0, 0, One>>,
                            FDiv(sz.width, sz.height), 45)
    /\ pointcloud' = pre.pointcloud
    /\ ops' = pre.ops

\* Engine::new(window) for a window of inner size sz, then the preload pre
NewEngine(sz, pre) ==
    /\ window_size' = sz
    /\ size' = sz
    /\ config' = sz
    /\ surface' = Configured(sz)
    /\ depth_texture' = create_depth_texture(sz)
    /\ camera' = Camera_new(InitEye, <<0, 0, 0>>, <<0, 0, One>>,
                            FDiv(sz.width, sz.height), 45)
    /\ pointcloud' = pre.pointcloud
    /\ ops' = <<<<"surface.configure", sz.width, sz.height>>>> \o pre.ops

\* App::resumed: create the window and the Engine, preload the file
resumed ==
    /\ engine = "None"
    /\ \E sf \in ScaleFactors :
         /\ scale_factor' = sf
         /\ NewEngine(Size(InitWidth * sf, InitHeight * sf),
                      IF pcd_path = NoPath
                      THEN [pointcloud |-> PointCloud_new, ops |-> <<>>]
                      ELSE set_pcd(PointCloud_new, pcd_path))
    /\ engine' = "Some"
    /\ event' = [type |-> "Resumed"]
    /\ ret' = FALSE
    /\ UNCHANGED <<pcd_path, exited, nEvents>>

\* The new values of what Engine::resize touches
SetSurface(e) ==
    /\ size' = e.size
    /\ config' = e.config
    /\ surface' = e.surface
    /\ depth_texture' = e.depth_texture
    /\ camera' = e.camera
    /\ ops' = e.ops

\* Redraw with Timeout handled like Lost and Outdated
RedrawTimeoutRetries(rops, acquire) ==
    IF acquire \in {"Lost", "Outdated", "Timeout"}
    THEN /\ SetSurface(Engine_resize([EngineSurface EXCEPT !.ops = rops], size))
         /\ UNCHANGED exited
    ELSE /\ exited' = (acquire \in {"OutOfMemory"})
         /\ ops' = rops \o (IF acquire = "Ok" THEN <<>> ELSE <<<<"exit">>>>)
         /\ UNCHANGED <<size, config, surface, depth_texture, camera>>

\* The RedrawRequested arm once update() has run: render, then the match on its result
Redraw(rops, acquire) ==
    IF acquire \in {"Lost", "Outdated"}
    THEN /\ SetSurface(Engine_resize([EngineSurface EXCEPT !.ops = rops], size))
         /\ UNCHANGED exited
    ELSE /\ exited' = (acquire \in {"OutOfMemory", "Timeout"})
         /\ ops' = rops \o (IF acquire = "Ok" THEN <<>> ELSE <<<<"exit">>>>)
         /\ UNCHANGED <<size, config, surface, depth_texture, camera>>

\* The RedrawRequested arm: update() has made the pointcloud pc
RedrawUpdated(pc, iops, acquire) ==
    /\ pointcloud' = pc
    /\ Redraw(iops \o <<<<"update">>>> \o Engine_render(pc, acquire), acquire)

\* App::window_event once Engine::input has answered r
Dispatch(ev, r, acquire) ==
    /\ ret' = r.ret
    /\ IF r.ret
       THEN /\ camera' = r.camera
            /\ pointcloud' = r.pointcloud
            /\ ops' = r.ops
            /\ UNCHANGED <<size, config, surface, depth_texture, exited>>
       ELSE CASE ev.type = "CloseRequested" ->
                   /\ exited' = TRUE
                   /\ ops' = r.ops \o <<<<"exit">>>>
                   /\ UNCHANGED <<size, config, surface, depth_texture, camera, pointcloud>>
              [] ev.type = "Resized" ->
                   /\ SetSurface(Engine_resize([EngineSurface EXCEPT !.ops = r.ops], ev.size))
                   /\ UNCHANGED <<pointcloud, exited>>
              [] ev.type = "RedrawRequested" ->
                   RedrawUpdated(PointCloud_update(pointcloud, camera, window_size),
                                 r.ops, acquire)
              [] OTHER ->
                   /\ ops' = r.ops
                   /\ UNCHANGED <<size, config, surface, depth_texture,
                                  camera, pointcloud, exited>>

\* App::window_event for event ev; ui is the answer of gui.input, acquire that of
\* surface.get_current_texture
window_event(ev, ui, acquire) ==
    /\ nEvents' = nEvents + 1
    /\ event' = ev
    /\ window_size' = IF ev.type = "Resized" THEN ev.size ELSE window_size
    /\ UNCHANGED <<engine, pcd_path, scale_factor>>
    /\ IF engine = "None"
       THEN /\ ret' = FALSE
            /\ ops' = <<>>
            /\ UNCHANGED <<size, config, surface, depth_texture, camera, pointcloud, exited>>
       ELSE Dispatch(ev, Engine_input(camera, pointcloud, ev, ui, scale_factor), acquire)

-----------------------------------------------------------------------------
(* The events winit delivers *)

Buttons == {"Left", "Right"}
ElementStates == {"Pressed", "Released"}

\* MouseScrollDelta::LineDelta(_, y): y lines
LineDeltas == {-20, 20, 100}

\* CursorMoved positions, physical pixels
Positions == {<<0, 0>>, <<200, 200>>, <<800, 200>>, <<200, 6200>>}

MovementKeys == {"KeyW", "ArrowUp", "KeyS", "ArrowDown",
                 "KeyA", "ArrowLeft", "KeyD", "ArrowRight"}
KeyCodes == MovementKeys \cup {"KeyB", "KeyJ", "KeyK", "KeyX"}

\* The points a file may hold: the origin (with a large intensity), a positive
\* point, a point whose largest magnitude is negative, an all-negative point
Points == {Point(0, 0, 0, 100), Point(2, 4, 8, 0), Point(-8, 1, 2, 0),
           Point(-2, -4, -8, 0)}

RECURSIVE SeqsUpTo(_, _)
SeqsUpTo(S, n) ==
    IF n = 0 THEN {<<>>}
    ELSE LET shorter == SeqsUpTo(S, n - 1)
         IN  shorter \cup {Append(q, x) : q \in shorter, x \in S}

\* Every file: unreadable, malformed, or well-formed with up to MaxPoints points
Files == {Unreadable, Malformed} \cup {PcdFile(q) : q \in SeqsUpTo(Points, MaxPoints)}

\* A few files for the specifications that are not about loading
SomeFiles == {Malformed, PcdFile(<<>>), PcdFile(<<Point(0, 0, 0, 100), Point(2, 4, 8, 0)>>)}

Dims == {0, 640, 1280}
Sizes == {Size(w, h) : w \in Dims, h \in Dims}

AcquireResults == {"Ok", "Lost", "Outdated", "OutOfMemory", "Timeout"}

\* The event loop is running and has callbacks left to deliver
Delivers(budget) == ~exited /\ nEvents < budget

MouseInput(budget) ==
    \E button \in Buttons, state \in ElementStates, ui \in BOOLEAN :
        /\ Delivers(budget)
        /\ window_event([type |-> "MouseInput", button |-> button, state |-> state],
                        ui, "Ok")

MouseWheel(budget) ==
    \/ \E y \in LineDeltas, ui \in BOOLEAN :
         /\ Delivers(budget)
         /\ window_event([type |-> "MouseWheel", delta |-> "LineDelta", y |-> y],
                         ui, "Ok")
    \/ \E ui \in BOOLEAN :
         /\ Delivers(budget)
         /\ window_event([type |-> "MouseWheel", delta |-> "PixelDelta", y |-> 20],
                         ui, "Ok")

CursorMoved(budget) ==
    \E position \in Positions, ui \in BOOLEAN :
        /\ Delivers(budget)
        /\ window_event([type |-> "CursorMoved", position |-> position], ui, "Ok")

KeyboardInput(budget, keys) ==
    \E keycode \in keys, state \in ElementStates, ui \in BOOLEAN :
        /\ Delivers(budget)
        /\ window_event([type |-> "KeyboardInput", keycode |-> keycode, state |-> state],
                        ui, "Ok")

DroppedFile(budget, files) ==
    \E file \in files, ui \in BOOLEAN :
        /\ Delivers(budget)
        /\ window_event([type |-> "DroppedFile", file |-> file], ui, "Ok")

Resized(budget) ==
    \E sz \in Sizes, ui \in BOOLEAN :
        /\ Delivers(budget)
        /\ window_event([type |-> "Resized", size |-> sz], ui, "Ok")

RedrawRequested(budget) ==
    \E acquire \in AcquireResults, ui \in BOOLEAN :
        /\ Delivers(budget)
        /\ window_event([type |-> "RedrawRequested"], ui, acquire)

CloseRequested(budget) ==
    \E ui \in BOOLEAN :
        /\ Delivers(budget)
        /\ window_event([type |-> "CloseRequested"], ui, "Ok")

\* Every kind of event, a few of each
Next ==
    \/ resumed
    \/ MouseInput(MaxEvents)
    \/ MouseWheel(MaxEvents)
    \/ CursorMoved(MaxEvents)
    \/ KeyboardInput(MaxEvents, {"KeyW", "KeyB", "KeyJ", "KeyK", "KeyX"})
    \/ DroppedFile(MaxEvents, SomeFiles)
    \/ Resized(MaxEvents)
    \/ RedrawRequested(MaxEvents)
    \/ CloseRequested(MaxEvents)

Spec == Init /\ [][Next]_vars

\* The camera's events
NextCamera ==
    \/ resumed
    \/ MouseInput(MaxCameraEvents)
    \/ MouseWheel(MaxCameraEvents)
    \/ CursorMoved(MaxCameraEvents)
    \/ KeyboardInput(MaxCameraEvents, {"KeyB"})

SpecCamera == Init /\ [][NextCamera]_vars

\* Loads: the preload of resumed and the file drops
NextLoad ==
    \/ resumed
    \/ DroppedFile(MaxLoadEvents, Files)

SpecLoad == Init /\ [][NextLoad]_vars

\* Resizes, frames and the close request
NextFrame ==
    \/ resumed
    \/ Resized(MaxFrameEvents)
    \/ RedrawRequested(MaxFrameEvents)
    \/ CloseRequested(MaxFrameEvents)
    \/ DroppedFile(MaxFrameEvents, SomeFiles)

SpecFrame == Init /\ [][NextFrame]_vars

\* Every key, pressed and released, with the right button and frames in between
NextKeys ==
    \/ resumed
    \/ MouseInput(MaxKeyEvents)
    \/ KeyboardInput(MaxKeyEvents, KeyCodes)
    \/ RedrawRequested(MaxKeyEvents)

SpecKeys == Init /\ [][NextKeys]_vars

-----------------------------------------------------------------------------
(* Properties *)

\* A step that is a window_event callback on an existing Engine
InputStep == engine = "Some" /\ nEvents' = nEvents + 1

\* ops holds a call of this name
HasOp(o, name) == \E i \in 1..Len(o) : o[i][1] = name

\* The last callback offered its event to the UI, which declined, and then to the camera
CameraSaw(o) == Len(o) >= 2 /\ o[1] = <<"gui.input", "false">>
                            /\ o[2][1] = "camera.process_event"

\* C1: Engine::input offers each event to the UI first, then to the camera, then to
\* the Engine-level match; a handler that consumes ends the dispatch (no later
\* handler is called, nothing it owns changes) and input returns true; input returns
\* false exactly when the UI, the camera and the match all declined.
C1_FirstConsumerWins ==
    [][InputStep =>
        /\ Len(ops') >= 1
        /\ ops'[1][1] = "gui.input"
        /\ ops'[1][2] = "true" =>
             /\ Len(ops') = 1
             /\ ret'
             /\ camera' = camera
             /\ pointcloud' = pointcloud
        /\ ops'[1][2] = "false" =>
             /\ Len(ops') >= 2
             /\ ops'[2][1] = "camera.process_event"
             /\ ops'[2][2] = "true" =>
                  /\ Len(ops') = 2
                  /\ ret'
                  /\ pointcloud' = pointcloud
             /\ ops'[2][2] = "false" =>
                  /\ Len(ops') >= 3
                  /\ ops'[3][1] = "engine.match"
                  /\ ret' = (ops'[3][2] = "true")]_vars

\* C1 witness: the UI consumed a right-button press, so the camera started no drag
C1_UiConsumedPress ==
    /\ engine = "Some"
    /\ event.type = "MouseInput"
    /\ event.button = "Right"
    /\ event.state = "Pressed"
    /\ ops = <<<<"gui.input", "true">>>>
    /\ ret
    /\ camera.mouse_right_position = None

\* The candidate eye is one the guard must reject
Rejected(eye) == eye = NaN \/ eye[3] <= 0

\* C2: the eye's z is > 0 in every state of the Engine, and a zoom or a rotation
\* (drag or birdeye) whose candidate eye has z <= 0 leaves the camera unchanged.
C2_EyeAboveGround ==
    [][/\ engine' = "Some" => camera'.eye[3] > 0
       /\ (InputStep /\ CameraSaw(ops')) =>
            /\ (/\ event'.type = "MouseWheel"
                /\ event'.delta = "LineDelta"
                /\ Rejected(ZoomCandidate(camera, event'.y))) => camera' = camera
            /\ (/\ event'.type = "CursorMoved"
                /\ camera.mouse_right_position \notin {None, <<0, 0>>}
                /\ Rejected(RotateCandidate(camera,
                      to_logical(event'.position, scale_factor)[1]
                          - camera.mouse_right_position[1],
                      to_logical(event'.position, scale_factor)[2]
                          - camera.mouse_right_position[2]))) => camera' = camera
            /\ (/\ event'.type = "KeyboardInput"
                /\ event'.keycode = "KeyB"
                /\ Rejected(RotateCandidate(camera, 0, -BirdeyeMag))) => camera' = camera
      ]_vars

\* C2 witness: a drag from (200, 200) to (200, 6200) asked for a rotation whose
\* candidate eye is below the ground plane, and the eye is still the initial one
C2_RotationRejected ==
    /\ engine = "Some"
    /\ event.type = "CursorMoved"
    /\ event.position = <<200, 6200>>
    /\ scale_factor = 1
    /\ CameraSaw(ops)
    /\ camera.mouse_right_position = <<200, 200>>
    /\ camera.eye = InitEye
    /\ Rejected(RotateCandidate(camera, 0, 6000))

\* The last callback's load failed / succeeded
LoadFailed(o) == \E i \in 1..Len(o) : o[i] = <<"load_pcd", "false">>
LoadSucceeded(o) == \E i \in 1..Len(o) : o[i] = <<"load_pcd", "true">>

\* C3: a load of a malformed or unreadable file (dropped, or named on the command
\* line) fails, leaves the instances and the instance buffer as they were, is logged,
\* and the application keeps running.
C3_FailedLoadKeepsInstances ==
    [][/\ (/\ InputStep
           /\ event'.type = "DroppedFile"
           /\ HasOp(ops', "load_pcd")
           /\ event'.file.status # "Ok") =>
            /\ LoadFailed(ops')
            /\ HasOp(ops', "eprintln")
            /\ pointcloud'.instances = pointcloud.instances
            /\ pointcloud'.instance_buffer = pointcloud.instance_buffer
            /\ ret'
            /\ ~exited'
       /\ (/\ engine = "None"
           /\ engine' = "Some"
           /\ pcd_path.status \notin {"None", "Ok"}) =>
            /\ LoadFailed(ops')
            /\ HasOp(ops', "eprintln")
            /\ pointcloud'.instances = <<>>
            /\ pointcloud'.instance_buffer = <<>>
            /\ ~exited'
      ]_vars

\* C3 witness: a malformed file was dropped on a loaded point cloud, which is kept
C3_FailedDropKeptInstances ==
    /\ engine = "Some"
    /\ event.type = "DroppedFile"
    /\ event.file.status = "Malformed"
    /\ LoadFailed(ops)
    /\ Len(pointcloud.instances) > 0
    /\ ~exited

\* C4 (as claimed): in a drag, the first motion sets the anchor and rotates nothing;
\* every later motion rotates by its delta from the anchor and moves the anchor to
\* the pointer.
C4_AnchorFollowsPointer ==
    [][(/\ InputStep
        /\ CameraSaw(ops')
        /\ event'.type = "CursorMoved"
        /\ camera.mouse_right_position # None) =>
          LET pos == to_logical(event'.position, scale_factor)
              anchor == camera.mouse_right_position
          IN  /\ camera'.mouse_right_position = pos
              /\ camera'.eye = IF anchor = <<0, 0>> THEN camera.eye
                               ELSE camera_rotate(camera, pos[1] - anchor[1],
                                                  pos[2] - anchor[2]).eye
      ]_vars

\* The event is a press or a release of the right mouse button
RightButton(ev) == ev.type = "MouseInput" /\ ev.button = "Right"

\* C5: the camera's drag session starts (with the sentinel anchor) at a right-button
\* press it sees, ends at the next right-button release it sees, and no other event
\* starts or ends it; a pointer motion outside a session is declined by the camera
\* and changes nothing of it.
C5_DragSession ==
    [][/\ (InputStep /\ CameraSaw(ops')) =>
            /\ (RightButton(event') /\ event'.state = "Pressed") =>
                 camera'.mouse_right_position = <<0, 0>> /\ ops'[2][2] = "true"
            /\ (RightButton(event') /\ event'.state = "Released") =>
                 camera'.mouse_right_position = None /\ ops'[2][2] = "true"
            /\ ~RightButton(event') =>
                 ((camera'.mouse_right_position = None)
                    <=> (camera.mouse_right_position = None))
            /\ (event'.type = "CursorMoved" /\ camera.mouse_right_position = None) =>
                 ops'[2][2] = "false" /\ camera' = camera
       /\ (InputStep /\ ~CameraSaw(ops')) =>
            camera'.mouse_right_position = camera.mouse_right_position
      ]_vars

\* C5 witness: a pointer motion arrived after a session had ended and was declined
C5_MotionOutsideSession ==
    /\ engine = "Some"
    /\ nEvents >= 3
    /\ event.type = "CursorMoved"
    /\ CameraSaw(ops)
    /\ ops[2][2] = "false"
    /\ ~ret
    /\ camera.mouse_right_position = None

\* The coordinates of all instances
Coords(instances) ==
    {instances[i].model[j] : i \in 1..Len(instances), j \in 1..3}

\* C6 (as claimed): after a successful load every coordinate of every instance is in
\* [-1, 1] and some coordinate is exactly 1 or -1.
C6_NormalizedToUnitCube ==
    (engine = "Some" /\ LoadSucceeded(ops)) =>
        /\ \A c \in Coords(pointcloud.instances) : c[2] > 0 /\ -c[2] <= c[1] /\ c[1] <= c[2]
        /\ \E c \in Coords(pointcloud.instances) : c[2] = 1 /\ Abs(c[1]) = 1

\* The file the last callback loaded
LoadedFile == IF event.type = "DroppedFile" THEN event.file ELSE pcd_path

\* The x, y and z of all points, and their maximum
Components(ps) == UNION {{ps[i].x, ps[i].y, ps[i].z} : i \in 1..Len(ps)}
GlobalMax(ps) == CHOOSE m \in Components(ps) : \A c \in Components(ps) : c <= m

\* q is the f32 quotient x / m
IsQuotient(q, x, m) ==
    IF m = 0 THEN q = <<Sign(x), 0>>
    ELSE q[2] > 0 /\ q[1] * m = x * q[2] /\ Gcd(Abs(q[1]), q[2]) = 1

\* C7: after a successful load there is one instance per point of the file, in the
\* file's order, each the point's x, y, z divided by the largest x, y or z of the
\* whole file (intensity ignored); the instance buffer holds exactly these; the
\* points (0,0,0), (2,4,8) give (0,0,0), (0.25,0.5,1).
C7_LoadNormalizesByGlobalMax ==
    (engine = "Some" /\ LoadSucceeded(ops)) =>
        LET ps == LoadedFile.points
            ins == pointcloud.instances
        IN  /\ Len(ins) = Len(ps)
            /\ \A i \in 1..Len(ps) :
                 /\ IsQuotient(ins[i].model[1], ps[i].x, GlobalMax(ps))
                 /\ IsQuotient(ins[i].model[2], ps[i].y, GlobalMax(ps))
                 /\ IsQuotient(ins[i].model[3], ps[i].z, GlobalMax(ps))
            /\ Len(pointcloud.instance_buffer) = 3 * Len(ps)
            /\ \A i \in 1..Len(ps), j \in 1..3 :
                 pointcloud.instance_buffer[3 * (i - 1) + j] = ins[i].model[j]
            /\ ps = <<Point(0, 0, 0, 100), Point(2, 4, 8, 0)>> =>
                 ins = <<[model |-> <<<<0, 1>>, <<0, 1>>, <<0, 1>>>>],
                         [model |-> <<<<1, 4>>, <<1, 2>>, <<1, 1>>>>]>>

\* C7 witness: the file (0,0,0), (2,4,8) was dropped and loaded
C7_ExampleLoaded ==
    /\ engine = "Some"
    /\ event.type = "DroppedFile"
    /\ event.file.status = "Ok"
    /\ event.file.points = <<Point(0, 0, 0, 100), Point(2, 4, 8, 0)>>
    /\ LoadSucceeded(ops)
    /\ pointcloud.instances[2].model = <<<<1, 4>>, <<1, 2>>, <<1, 1>>>>

\* C8: Engine::resize with a zero width or height changes nothing; with both
\* dimensions > 0 the stored size, the surface configuration, the camera's aspect
\* ratio and the depth texture are replaced to match the new size; the depth texture
\* always has the extent of the surface configuration.
C8_ResizeAllOrNothing ==
    [][/\ (InputStep /\ event'.type = "Resized" /\ ~ret') =>
            IF event'.size.width = 0 \/ event'.size.height = 0
            THEN /\ size' = size
                 /\ config' = config
                 /\ surface' = surface
                 /\ camera'.aspect = camera.aspect
                 /\ depth_texture' = depth_texture
            ELSE /\ size' = event'.size
                 /\ config' = event'.size
                 /\ surface' = [configured |-> TRUE, width |-> event'.size.width,
                                height |-> event'.size.height]
                 /\ camera'.aspect[2] > 0
                 /\ camera'.aspect[1] * event'.size.height
                      = camera'.aspect[2] * event'.size.width
                 /\ depth_texture' = [width |-> event'.size.width,
                                      height |-> event'.size.height]
       /\ engine' = "Some" =>
            /\ depth_texture'.width = config'.width
            /\ depth_texture'.height = config'.height
            /\ surface'.width = config'.width
            /\ surface'.height = config'.height
            /\ size' = config'
      ]_vars

\* C8 witness: a resize to (640, 0) reached Engine::resize and the initial size,
\* configuration and depth texture are retained
C8_ZeroHeightIgnored ==
    /\ engine = "Some"
    /\ nEvents = 1
    /\ event.type = "Resized"
    /\ event.size = Size(640, 0)
    /\ ~ret
    /\ size = Size(InitWidth * scale_factor, InitHeight * scale_factor)
    /\ depth_texture = [width |-> size.width, height |-> size.height]

\* get_current_texture answered with one of these in the last callback
AcquireIn(o, results) ==
    \E i \in 1..Len(o) : o[i][1] = "get_current_texture" /\ o[i][2] \in results

\* The last callback recorded no render pass, no submit and no present
NothingDrawn(o) ==
    \A i \in 1..Len(o) :
        o[i][1] \notin {"init_render_pass", "pointcloud_render_pass", "pointcloud.draw",
                        "gui.draw", "submit", "present"}

\* C9: when get_current_texture fails in a frame, Lost or Outdated make the Engine
\* reconfigure the surface at its current size and keep running; OutOfMemory or
\* Timeout exit the event loop; in both cases nothing is drawn, submitted or
\* presented in that frame.
C9_AcquireFailure ==
    (engine = "Some" /\ event.type = "RedrawRequested") =>
        /\ AcquireIn(ops, {"Lost", "Outdated"}) =>
             /\ ops[Len(ops)] = <<"surface.configure", size.width, size.height>>
             /\ surface = [configured |-> TRUE, width |-> size.width,
                           height |-> size.height]
             /\ ~exited
             /\ NothingDrawn(ops)
        /\ AcquireIn(ops, {"OutOfMemory", "Timeout"}) =>
             /\ exited
             /\ ops[Len(ops)] = <<"exit">>
             /\ ~HasOp(ops, "surface.configure")
             /\ NothingDrawn(ops)

\* C9 witness: a frame on a loaded point cloud lost the surface and reconfigured it
C9_LostReconfigured ==
    /\ engine = "Some"
    /\ event.type = "RedrawRequested"
    /\ AcquireIn(ops, {"Lost"})
    /\ ops[Len(ops)][1] = "surface.configure"
    /\ Len(pointcloud.instances) > 0
    /\ ~exited

\* C10 (as claimed): the render target becomes Configured by a resize event, and no
\* frame is rendered before that.
C10_ConfiguredByResize ==
    [][/\ (~surface.configured /\ surface'.configured) => event'.type = "Resized"
       /\ HasOp(ops', "get_current_texture") => surface.configured
      ]_vars

\* C10 (amended): the surface is configured exactly while the Engine exists: it
\* becomes Configured in App::resumed, where Engine::new configures it with the
\* window's size, not by a resize; callbacks that arrive before are ignored; on an
\* existing Engine every redraw request that Engine::input does not consume runs
\* update and render.
C10_ConfiguredAtConstruction ==
    [][/\ surface'.configured <=> engine' = "Some"
       /\ (~surface.configured /\ surface'.configured) =>
            /\ event'.type = "Resumed"
            /\ ops'[1] = <<"surface.configure", window_size'.width, window_size'.height>>
       /\ (engine = "None" /\ nEvents' = nEvents + 1) =>
            /\ ops' = <<>>
            /\ ~surface'.configured
       /\ (InputStep /\ event'.type = "RedrawRequested" /\ ~ret') =>
            /\ HasOp(ops', "update")
            /\ HasOp(ops', "get_current_texture")
      ]_vars

\* C10 witness: the first callback after resumed was a redraw request, and the
\* frame was rendered and presented although no resize had occurred
C10_RenderedBeforeAnyResize ==
    /\ engine = "Some"
    /\ nEvents = 1
    /\ event.type = "RedrawRequested"
    /\ surface.configured
    /\ HasOp(ops, "present")

\* The instanced draws the last callback recorded
DrawCalls(o) == SelectSeq(o, LAMBDA c : c[1] = "pointcloud.draw")

\* C11: the point cloud starts with zero instances; its instances change only in a
\* callback whose load succeeded; a rendered frame records no draw call while there
\* are zero instances and otherwise exactly one draw of 6 vertices and as many
\* instances as are loaded.
C11_EmptyOrLoaded ==
    [][/\ (engine = "None" /\ engine' = "Some" /\ ~LoadSucceeded(ops')) =>
            pointcloud'.instances = <<>>
       /\ (engine = "Some" /\ pointcloud'.instances # pointcloud.instances) =>
            LoadSucceeded(ops')
       /\ (InputStep /\ HasOp(ops', "submit")) =>
            DrawCalls(ops') =
                IF Len(pointcloud'.instances) = 0 THEN <<>>
                ELSE <<<<"pointcloud.draw", 6, Len(pointcloud'.instances)>>>>
      ]_vars

\* C11 witness: a frame was rendered and presented with zero instances loaded, and
\* it recorded no draw call
C11_EmptyFrameSkippedDraw ==
    /\ engine = "Some"
    /\ event.type = "RedrawRequested"
    /\ HasOp(ops, "present")
    /\ pointcloud.instances = <<>>
    /\ DrawCalls(ops) = <<>>

\* The event is one that zooms or rotates: a line-delta scroll, a pointer motion in
\* a drag whose anchor is set, or the birdeye key
MovesEye(cam, ev) ==
    \/ ev.type = "MouseWheel" /\ ev.delta = "LineDelta"
    \/ ev.type = "CursorMoved" /\ cam.mouse_right_position \notin {None, <<0, 0>>}
    \/ ev.type = "KeyboardInput" /\ ev.keycode = "KeyB"

\* C12: the camera's target is the one it was constructed with in every state; no
\* camera input event changes target, up, aspect, fovy, znear or zfar; a zoom, a
\* rotation or a birdeye changes at most the eye.
C12_OnlyEyeMoves ==
    [][/\ engine' = "Some" => camera'.target = <<0, 0, 0>>
       /\ InputStep =>
            /\ camera'.target = camera.target
            /\ camera'.up = camera.up
            /\ camera'.aspect = camera.aspect
            /\ camera'.fovy = camera.fovy
            /\ camera'.znear = camera.znear
            /\ camera'.zfar = camera.zfar
       /\ (InputStep /\ CameraSaw(ops') /\ MovesEye(camera, event')) =>
            camera' = [camera EXCEPT !.eye = camera'.eye]
      ]_vars

\* C12 witness: a scroll of 20 lines was accepted: the eye has left its initial
\* position and the target is still the origin
C12_ZoomedTowardsTarget ==
    /\ engine = "Some"
    /\ event.type = "MouseWheel"
    /\ event.delta = "LineDelta"
    /\ event.y = 20
    /\ CameraSaw(ops)
    /\ camera.eye # InitEye
    /\ camera.target = <<0, 0, 0>>

\* The pressed-flag a movement key stands for
FlagOf(keycode) ==
    CASE keycode \in {"KeyW", "ArrowUp"} -> "is_up_pressed"
      [] keycode \in {"KeyS", "ArrowDown"} -> "is_down_pressed"
      [] keycode \in {"KeyA", "ArrowLeft"} -> "is_left_pressed"
      [] keycode \in {"KeyD", "ArrowRight"} -> "is_right_pressed"

\* C13: a movement-key event the camera sees, press or release, is consumed and
\* sets the key's pressed-flag to whether the key is pressed, changing nothing else
\* of the camera; the eye moves only in a zoom, a rotation or a birdeye, and a frame
\* leaves the camera as it is whatever the flags are.
C13_MovementKeysSetFlags ==
    [][/\ (/\ InputStep
           /\ CameraSaw(ops')
           /\ event'.type = "KeyboardInput"
           /\ event'.keycode \in MovementKeys) =>
            /\ ops'[2][2] = "true"
            /\ ret'
            /\ camera' = [camera EXCEPT ![FlagOf(event'.keycode)] =
                                            (event'.state = "Pressed")]
            /\ pointcloud' = pointcloud
       /\ (InputStep /\ camera'.eye # camera.eye) =>
            CameraSaw(ops') /\ MovesEye(camera, event')
       /\ (InputStep /\ event'.type = "RedrawRequested") => camera' = camera
      ]_vars

\* C13 witness: the W key was pressed during a drag session: the flag is set, the
\* session is still on and the eye has not moved
C13_ForwardPressedInDrag ==
    /\ engine = "Some"
    /\ event.type = "KeyboardInput"
    /\ event.keycode = "KeyW"
    /\ event.state = "Pressed"
    /\ CameraSaw(ops)
    /\ ret
    /\ camera.is_up_pressed
    /\ camera.mouse_right_position = <<0, 0>>
    /\ camera.eye = InitEye

\* C14: a line-delta scroll the camera sees is consumed and zooms by the delta's y:
\* the eye becomes the zoom's candidate, or stays where it is if the guard rejects
\* the candidate, and nothing else of the camera changes; a pixel-delta scroll is
\* declined by the camera, leaves it unchanged and goes on to the Engine-level match.
C14_LineDeltaZooms ==
    [][(InputStep /\ CameraSaw(ops') /\ event'.type = "MouseWheel") =>
          IF event'.delta = "LineDelta"
          THEN /\ ops'[2][2] = "true"
               /\ Len(ops') = 2
               /\ ret'
               /\ camera' = [camera EXCEPT !.eye =
                                IF Rejected(ZoomCandidate(camera, event'.y))
                                THEN camera.eye
                                ELSE ZoomCandidate(camera, event'.y)]
          ELSE /\ ops'[2][2] = "false"
               /\ camera' = camera
               /\ Len(ops') >= 3
               /\ ops'[3] = <<"engine.match", "false">>
               /\ ~ret'
      ]_vars

\* C14 witness: a scroll of 100 lines from the initial pose was consumed although
\* its zoom was rejected by the guard
C14_RejectedZoomConsumed ==
    /\ engine = "Some"
    /\ event.type = "MouseWheel"
    /\ event.delta = "LineDelta"
    /\ event.y = 100
    /\ CameraSaw(ops)
    /\ ops[2][2] = "true"
    /\ ret
    /\ camera.eye = InitEye
    /\ Rejected(ZoomCandidate(camera, 100))

\* |eye - target|
Distance(cam) == Magnitude(VSub(cam.target, cam.eye))

\* The event makes the camera call camera_rotate: a pointer motion in a drag whose
\* anchor is set, or the birdeye key
Rotates(cam, ev) ==
    \/ ev.type = "CursorMoved" /\ cam.mouse_right_position \notin {None, <<0, 0>>}
    \/ ev.type = "KeyboardInput" /\ ev.keycode = "KeyB"

\* C15: across every rotation step the camera takes, accepted or rejected by the
\* guard, |eye - target| is the same before and after, to within two units of the
\* fixed-point resolution (the rounding of the normalisation and of the product).
C15_RotationKeepsDistance ==
    [][(InputStep /\ CameraSaw(ops') /\ Rotates(camera, event')) =>
          Abs(Distance(camera') - Distance(camera)) <= 2
      ]_vars

\* C15 witness: press, a first motion to (200, 200) and a drag to (800, 200): the
\* rotation was accepted, the eye has moved and is as far from the target as before
C15_DraggedOnSphere ==
    /\ engine = "Some"
    /\ nEvents = 3
    /\ event.type = "CursorMoved"
    /\ event.position = <<800, 200>>
    /\ scale_factor = 1
    /\ CameraSaw(ops)
    /\ camera.mouse_right_position = <<200, 200>>
    /\ camera.eye # InitEye
    /\ Abs(Distance(camera) - Magnitude(InitEye)) <= 2

\* A step that is a frame: a redraw request that Engine::input did not consume
FrameStep == InputStep /\ event'.type = "RedrawRequested" /\ ~ret'

\* What the callback did after Engine::input declined (its three handlers recorded)
AfterInput(o) == SubSeq(o, 4, Len(o))

\* The uniform update() writes in a frame that starts with this camera and pointcloud
FrameUniform(cam, pc, inner_size) ==
    [camera |-> <<cam.eye, cam.target, cam.up, cam.aspect, cam.fovy, cam.znear, cam.zfar>>,
     resolution |-> inner_size,
     size |-> pc.point_size]

\* The point cloud's part of a frame: nothing, or its pass and its draw
CloudPass(pc) ==
    IF pc.instances = <<>> THEN <<>>
    ELSE <<<<"pointcloud_render_pass", "Load", "Clear">>,
           <<"pointcloud.draw", 6, Len(pc.instances)>>>>

\* C16 (as claimed): a frame runs update, which writes the uniform, then render; a
\* render that acquires the image clears color and depth in the initial pass, draws
\* the point cloud, draws the UI loading the color, submits and presents.
C16_FrameClearsDepthFirst ==
    [][FrameStep =>
          /\ Len(ops') >= 5
          /\ ops'[4] = <<"update">>
          /\ pointcloud'.uniform = FrameUniform(camera, pointcloud, window_size)
          /\ ops'[5][1] = "get_current_texture"
          /\ ops'[5][2] = "Ok" =>
                AfterInput(ops') =
                    <<<<"update">>, <<"get_current_texture", "Ok">>,
                      <<"init_render_pass", "Clear", "Clear">>>>
                    \o (IF pointcloud.instances = <<>> THEN <<>>
                        ELSE <<<<"pointcloud_render_pass", "Load", "Load">>,
                               <<"pointcloud.draw", 6, Len(pointcloud.instances)>>>>)
                    \o <<<<"gui.draw", "Load">>, <<"submit">>, <<"present">>>>
      ]_vars

\* C16 (amended): as claimed, except that the initial pass clears the color only (it
\* has no depth attachment) and the depth is cleared by the point cloud's own pass,
\* which is begun only when there are instances.
C16_FrameOrder ==
    [][FrameStep =>
          /\ Len(ops') >= 5
          /\ ops'[4] = <<"update">>
          /\ pointcloud'.uniform = FrameUniform(camera, pointcloud, window_size)
          /\ ops'[5][1] = "get_current_texture"
          /\ ops'[5][2] = "Ok" =>
                AfterInput(ops') =
                    <<<<"update">>, <<"get_current_texture", "Ok">>,
                      <<"init_render_pass", "Clear", "None">>>>
                    \o CloudPass(pointcloud)
                    \o <<<<"gui.draw", "Load">>, <<"submit">>, <<"present">>>>
      ]_vars

\* C16 witness: a frame on a loaded point cloud was updated, rendered and presented
C16_LoadedFramePresented ==
    /\ engine = "Some"
    /\ event.type = "RedrawRequested"
    /\ ~ret
    /\ Len(pointcloud.instances) > 0
    /\ Len(ops) = 11
    /\ ops[4] = <<"update">>
    /\ ops[6] = <<"init_render_pass", "Clear", "None">>
    /\ ops[7] = <<"pointcloud_render_pass", "Load", "Clear">>
    /\ ops[8][1] = "pointcloud.draw"
    /\ ops[11] = <<"present">>

\* The eye after camera_rotate(0, -1e8) from this camera
BirdeyeEye(cam) ==
    IF Rejected(RotateCandidate(cam, 0, -BirdeyeMag)) THEN cam.eye
    ELSE RotateCandidate(cam, 0, -BirdeyeMag)

\* C17: a KeyB event the camera sees is consumed and rotates by (0, -1e8) once,
\* be it the press or the release; a KeyJ or KeyK event is declined by the camera;
\* its press is consumed by the Engine-level match, which lowers (J) or raises (K)
\* the point size by 0.1; its release is consumed by no handler and changes nothing.
C17_BirdeyeOnPressAndRelease ==
    [][(InputStep /\ CameraSaw(ops') /\ event'.type = "KeyboardInput") =>
          /\ event'.keycode = "KeyB" =>
               /\ ops'[2][2] = "true"
               /\ Len(ops') = 2
               /\ ret'
               /\ camera' = [camera EXCEPT !.eye = BirdeyeEye(camera)]
               /\ pointcloud' = pointcloud
          /\ event'.keycode \in {"KeyJ", "KeyK"} =>
               /\ ops'[2][2] = "false"
               /\ camera' = camera
               /\ IF event'.state = "Pressed"
                  THEN /\ ret'
                       /\ ops'[3] = <<"engine.match", "true">>
                       /\ pointcloud' =
                            [pointcloud EXCEPT !.point_size =
                                IF event'.keycode = "KeyJ" THEN @ - 1 ELSE @ + 1]
                  ELSE /\ ~ret'
                       /\ ops'[3] = <<"engine.match", "false">>
                       /\ pointcloud' = pointcloud
      ]_vars

\* C17 witness: the first event was a release of KeyB; the camera consumed it and
\* the eye went from its initial position to the birdeye position
C17_BirdeyeOnRelease ==
    /\ engine = "Some"
    /\ nEvents = 1
    /\ event.type = "KeyboardInput"
    /\ event.keycode = "KeyB"
    /\ event.state = "Released"
    /\ CameraSaw(ops)
    /\ ops[2][2] = "true"
    /\ ret
    /\ camera.eye # InitEye
    /\ camera.eye = RotateCandidate([camera EXCEPT !.eye = InitEye], 0, -BirdeyeMag)

=============================================================================
